---- MODULE Spec2Model ----
(***************************************************************************)
(* A model of the tsnum WASM kernel (packages/tsnum-wasm/src/lib.rs).      *)
(*                                                                         *)
(* The kernel is a set of stateless functions over flat f64 buffers.  The  *)
(* state of the model is one call: the buffers handed in (a, b), the       *)
(* scalar and dimension parameters (p), the operation called (op) and its  *)
(* outcome (res).  An outcome is a returned value, a returned Err(String)  *)
(* or a panic (assert!, assert_eq!, slice index out of bounds,             *)
(* f64::clamp), which under wasm_bindgen aborts the instance.              *)
(*                                                                         *)
(* Arithmetic is exact.  Reductions are computed over the rationals,       *)
(* the small-matrix kernel over decimal fixed point numbers m * 10^-s, and *)
(* the spectral kernel over the dyadic part of Q(sqrt 2), which holds      *)
(* every twiddle factor of the transform lengths 1, 2, 4 and 8.  The       *)
(* rounding of f64 is not modelled: a tolerance of the source ("within     *)
(* 1e-10") is checked as equality in exact arithmetic.                     *)
(***************************************************************************)
EXTENDS Integers, Sequences, FiniteSets, TLC

VARIABLES op, a, b, p, res

vars == <<op, a, b, p, res>>

(***************************************************************************)
(* Outcomes of a call.                                                     *)
(***************************************************************************)
Ok(v) == [kind |-> "ok", val |-> v, msg |-> ""]

Err(m) == [kind |-> "err", val |-> <<>>, msg |-> m]

Panic(m) == [kind |-> "panic", val |-> <<>>, msg |-> m]

NoCall == [kind |-> "none", val |-> <<>>, msg |-> ""]

Abs(x) == IF x < 0 THEN -x ELSE x

RECURSIVE Gcd(_, _)
Gcd(x, y) == IF y = 0 THEN x ELSE Gcd(y, x % y)

RECURSIVE Pow(_, _)
Pow(x, n) == IF n = 0 THEN 1 ELSE x * Pow(x, n - 1)

(***************************************************************************)
(* Sequences of every length up to n over S.                               *)
(***************************************************************************)
SeqsUpTo(S, n) == UNION {[1..l -> S] : l \in 0..n}

(***************************************************************************)
(* f64 values of the reduction kernel: a rational <<num, den>> in lowest   *)
(* terms with den > 0, or an IEEE special: <<1, 0>> is +inf, <<-1, 0>> is  *)
(* -inf and <<0, 0>> is NaN.                                               *)
(***************************************************************************)
Sgn(x) == IF x > 0 THEN 1 ELSE IF x < 0 THEN -1 ELSE 0

Rat(n, d) ==
    IF d = 0 THEN <<Sgn(n), 0>>
    ELSE LET g == Gcd(Abs(n), Abs(d))
             s == Sgn(d)
         IN  <<(s * n) \div g, (s * d) \div g>>

R(v) == <<v, 1>>

INFINITY == <<1, 0>>

NEG_INFINITY == <<-1, 0>>

NAN == <<0, 0>>

IsFinite(x) == x[2] # 0

RAdd(x, y) ==
    IF IsFinite(x) /\ IsFinite(y) THEN Rat(x[1] * y[2] + y[1] * x[2], x[2] * y[2])
    ELSE IF IsFinite(x) THEN y
    ELSE IF IsFinite(y) THEN x
    ELSE IF x = y THEN x ELSE NAN

RNeg(x) == <<-x[1], x[2]>>

RSub(x, y) == RAdd(x, RNeg(y))

RMul(x, y) ==
    IF IsFinite(x) /\ IsFinite(y) THEN Rat(x[1] * y[1], x[2] * y[2])
    ELSE <<Sgn(x[1]) * Sgn(y[1]), 0>>

RDiv(x, y) ==
    IF IsFinite(x) /\ IsFinite(y) THEN Rat(x[1] * y[2], x[2] * y[1])
    ELSE IF IsFinite(x) THEN (IF y = NAN THEN NAN ELSE R(0))
    ELSE IF IsFinite(y) THEN <<x[1] * (IF y[1] < 0 THEN -1 ELSE 1), 0>>
    ELSE NAN

RLess(x, y) ==
    IF x = NAN \/ y = NAN THEN FALSE
    ELSE IF IsFinite(x) /\ IsFinite(y) THEN x[1] * y[2] < y[1] * x[2]
    ELSE IF IsFinite(x) THEN y = INFINITY
    ELSE IF IsFinite(y) THEN x = NEG_INFINITY
    ELSE x = NEG_INFINITY /\ y = INFINITY

\* f64::max and f64::min: the other operand when one is NaN.
F64Max(x, y) == IF x = NAN THEN y ELSE IF y = NAN THEN x ELSE IF RLess(x, y) THEN y ELSE x

F64Min(x, y) == IF x = NAN THEN y ELSE IF y = NAN THEN x ELSE IF RLess(y, x) THEN y ELSE x

RECURSIVE ISqrtFrom(_, _)
ISqrtFrom(n, r) == IF (r + 1) * (r + 1) > n THEN r ELSE ISqrtFrom(n, r + 1)

ISqrt(n) == ISqrtFrom(n, 0)

IsSquare(n) == n >= 0 /\ ISqrt(n) * ISqrt(n) = n

\* f64::sqrt: the root of a rational square; <<num, den, 2>> stands for the
\* irrational root of num/den, NaN for a negative radicand.
RSqrt(x) ==
    IF x = NAN \/ x = NEG_INFINITY THEN NAN
    ELSE IF x = INFINITY THEN INFINITY
    ELSE IF x[1] < 0 THEN NAN
    ELSE IF IsSquare(x[1]) /\ IsSquare(x[2]) THEN <<ISqrt(x[1]), ISqrt(x[2])>>
    ELSE <<x[1], x[2], 2>>

(***************************************************************************)
(* Iterator folds, left to right.                                          *)
(***************************************************************************)
RECURSIVE FoldSum(_, _, _)
FoldSum(s, i, acc) ==
    IF i > Len(s) THEN acc ELSE FoldSum(s, i + 1, RAdd(acc, s[i]))

RECURSIVE FoldMax(_, _, _)
FoldMax(s, i, acc) ==
    IF i > Len(s) THEN acc ELSE FoldMax(s, i + 1, F64Max(acc, s[i]))

RECURSIVE FoldMin(_, _, _)
FoldMin(s, i, acc) ==
    IF i > Len(s) THEN acc ELSE FoldMin(s, i + 1, F64Min(acc, s[i]))

\* The buffer as f64 values.
Buf(s) == [i \in 1..Len(s) |-> R(s[i])]

(***************************************************************************)
(* Reduction kernel.  Arguments are buffers of f64 values.                 *)
(***************************************************************************)
sum(x) == FoldSum(x, 1, R(0))

mean_no_empty_check(x) == RDiv(FoldSum(x, 1, R(0)), R(Len(x)))

mean(x) ==
    IF Len(x) = 0 THEN R(0)
    ELSE RDiv(FoldSum(x, 1, R(0)), R(Len(x)))

max(x) == FoldMax(x, 1, NEG_INFINITY)

min(x) == FoldMin(x, 1, INFINITY)

variance(x) ==
    IF Len(x) = 0 THEN R(0)
    ELSE LET mean_val == mean(x)
             sq == [i \in 1..Len(x) |->
                      LET diff == RSub(x[i], mean_val) IN RMul(diff, diff)]
             sum_squared_diff == FoldSum(sq, 1, R(0))
         IN  RDiv(sum_squared_diff, R(Len(x)))

std(x) == RSqrt(variance(x))

(***************************************************************************)
(* Bounds of the reduction and elementwise checks: buffers of at most      *)
(* MaxLen integers of magnitude at most MaxVal.                            *)
(***************************************************************************)
MaxLen == 4

MaxVal == 2

Vals == (-MaxVal)..MaxVal

(***************************************************************************)
(* Calls of the reduction kernel on the buffer a.                          *)
(***************************************************************************)
Returns(name, outcome) ==
    /\ op = "none"
    /\ op' = name
    /\ res' = outcome

CallSum == Returns("sum", Ok(sum(Buf(a)))) /\ UNCHANGED <<a, b, p>>

CallMean == Returns("mean", Ok(mean(Buf(a)))) /\ UNCHANGED <<a, b, p>>

CallMax == Returns("max", Ok(max(Buf(a)))) /\ UNCHANGED <<a, b, p>>

CallMin == Returns("min", Ok(min(Buf(a)))) /\ UNCHANGED <<a, b, p>>

CallStd == Returns("std", Ok(std(Buf(a)))) /\ UNCHANGED <<a, b, p>>

CallVariance == Returns("variance", Ok(variance(Buf(a)))) /\ UNCHANGED <<a, b, p>>

InitReduce ==
    /\ op = "none"
    /\ a \in SeqsUpTo(Vals, MaxLen)
    /\ b = <<>>
    /\ p = <<>>
    /\ res = NoCall

NextReduce ==
    \/ CallSum
    \/ CallMean
    \/ CallMax
    \/ CallMin
    \/ CallStd
    \/ CallVariance

SpecReduce == InitReduce /\ [][NextReduce]_vars

(***************************************************************************)
(* Reference values of the reductions, in integers: S is the sum of the    *)
(* elements, and with n = Len(s), n^3 * variance = SUM (n * s[i] - S)^2.   *)
(***************************************************************************)
RECURSIVE IntSum(_)
IntSum(s) == IF s = <<>> THEN 0 ELSE Head(s) + IntSum(Tail(s))

SqDev(s) == [i \in 1..Len(s) |-> (Len(s) * s[i] - IntSum(s)) * (Len(s) * s[i] - IntSum(s))]

IsGreatest(m, s) == (\E i \in 1..Len(s) : s[i] = m) /\ (\A i \in 1..Len(s) : s[i] <= m)

IsLeast(m, s) == (\E i \in 1..Len(s) : s[i] = m) /\ (\A i \in 1..Len(s) : s[i] >= m)

\* C9: the reductions never fail; on the empty buffer mean, variance and std
\* are 0.0 while max is -inf and min is +inf; on a non-empty buffer mean is
\* sum/len, variance is the mean of the squared deviations from the mean
\* (divisor len) and max/min are the greatest/least element.
C9_Reductions ==
    /\ op \in {"sum", "mean", "max", "min", "std", "variance"} => res.kind = "ok"
    /\ (op \in {"mean", "variance", "std"} /\ a = <<>>) => res.val = R(0)
    /\ (op = "max" /\ a = <<>>) => res.val = NEG_INFINITY
    /\ (op = "min" /\ a = <<>>) => res.val = INFINITY
    /\ (op = "mean" /\ a # <<>>) =>
           /\ res.val[2] > 0
           /\ res.val[1] * Len(a) = IntSum(a) * res.val[2]
    /\ (op = "variance" /\ a # <<>>) =>
           /\ res.val[2] > 0
           /\ res.val[1] * Len(a) * Len(a) * Len(a) = IntSum(SqDev(a)) * res.val[2]
    /\ (op = "max" /\ a # <<>>) => res.val[2] = 1 /\ IsGreatest(res.val[1], a)
    /\ (op = "min" /\ a # <<>>) => res.val[2] = 1 /\ IsLeast(res.val[1], a)

\* Reached: max of the empty buffer returned -inf.  Reached as well: a
\* variance that is not an integer.
C9_Witness == op = "max" /\ a = <<>> /\ res = Ok(NEG_INFINITY)

C9_WitnessVariance ==
    op = "variance" /\ Len(a) = 3 /\ res.kind = "ok" /\ res.val[2] = 9

(***************************************************************************)
(* Elementwise kernel.  a.iter().zip(b.iter()) stops at the shorter of the *)
(* two buffers.                                                            *)
(***************************************************************************)
MinLen(x, y) == IF Len(x) < Len(y) THEN Len(x) ELSE Len(y)

\* The f64 remainder x % y: the sign of the dividend, NaN for a zero divisor.
FRem(x, y) ==
    IF y[1] = 0 THEN NAN
    ELSE LET n == Abs(x[1]) * y[2]
             d == Abs(y[1]) * x[2]
         IN  Rat(Sgn(x[1]) * (n % d), x[2] * y[2])

\* atan2 is not evaluated: the value stands for itself.
Atan2(y, x) == [fn |-> "atan2", y |-> y, x |-> x]

\* f64::clamp asserts min <= max before it clamps.
Clamp(x, lo, hi) == IF RLess(x, lo) THEN lo ELSE IF RLess(hi, x) THEN hi ELSE x

add_arrays(x, y) ==
    IF Len(x) # Len(y)
    THEN Panic("Arrays must have same length (broadcasting handled in JS)")
    ELSE Ok([i \in 1..MinLen(x, y) |-> RAdd(x[i], y[i])])

sub_arrays(x, y) ==
    IF Len(x) # Len(y) THEN Panic("assertion failed: left == right")
    ELSE Ok([i \in 1..MinLen(x, y) |-> RSub(x[i], y[i])])

mul_arrays(x, y) ==
    IF Len(x) # Len(y) THEN Panic("assertion failed: left == right")
    ELSE Ok([i \in 1..MinLen(x, y) |-> RMul(x[i], y[i])])

div_arrays(x, y) ==
    IF Len(x) # Len(y) THEN Panic("assertion failed: left == right")
    ELSE Ok([i \in 1..MinLen(x, y) |-> RDiv(x[i], y[i])])

maximum_arrays(x, y) == Ok([i \in 1..MinLen(x, y) |-> F64Max(x[i], y[i])])

minimum_arrays(x, y) == Ok([i \in 1..MinLen(x, y) |-> F64Min(x[i], y[i])])

mod_arrays(x, y) == Ok([i \in 1..MinLen(x, y) |-> FRem(x[i], y[i])])

fmod_arrays(x, y) == Ok([i \in 1..MinLen(x, y) |-> FRem(x[i], y[i])])

arctan2_arrays(y, x) == Ok([i \in 1..MinLen(y, x) |-> Atan2(y[i], x[i])])

clip_array(x, lo, hi) ==
    IF Len(x) > 0 /\ ~(RLess(lo, hi) \/ lo = hi)
    THEN Panic("min > max, or either was NaN")
    ELSE Ok([i \in 1..Len(x) |-> Clamp(x[i], lo, hi)])

dot(x, y) ==
    IF Len(x) # Len(y) THEN Panic("Arrays must have same length")
    ELSE Ok(FoldSum([i \in 1..MinLen(x, y) |-> RMul(x[i], y[i])], 1, R(0)))

(***************************************************************************)
(* Calls of the elementwise kernel on the buffers a and b.                 *)
(***************************************************************************)
MaxPairLen == 2

CallAdd == Returns("add_arrays", add_arrays(Buf(a), Buf(b))) /\ UNCHANGED <<a, b, p>>

CallSub == Returns("sub_arrays", sub_arrays(Buf(a), Buf(b))) /\ UNCHANGED <<a, b, p>>

CallMul == Returns("mul_arrays", mul_arrays(Buf(a), Buf(b))) /\ UNCHANGED <<a, b, p>>

CallDiv == Returns("div_arrays", div_arrays(Buf(a), Buf(b))) /\ UNCHANGED <<a, b, p>>

CallMaximum == Returns("maximum_arrays", maximum_arrays(Buf(a), Buf(b))) /\ UNCHANGED <<a, b, p>>

CallMinimum == Returns("minimum_arrays", minimum_arrays(Buf(a), Buf(b))) /\ UNCHANGED <<a, b, p>>

CallMod == Returns("mod_arrays", mod_arrays(Buf(a), Buf(b))) /\ UNCHANGED <<a, b, p>>

CallFmod == Returns("fmod_arrays", fmod_arrays(Buf(a), Buf(b))) /\ UNCHANGED <<a, b, p>>

CallArctan2 == Returns("arctan2_arrays", arctan2_arrays(Buf(a), Buf(b))) /\ UNCHANGED <<a, b, p>>

CallDot == Returns("dot", dot(Buf(a), Buf(b))) /\ UNCHANGED <<a, b, p>>

CallClip ==
    \E lo \in Vals, hi \in Vals :
        /\ Returns("clip_array", clip_array(Buf(a), R(lo), R(hi)))
        /\ p' = <<lo, hi>>
        /\ UNCHANGED <<a, b>>

InitElementwise ==
    /\ op = "none"
    /\ a \in SeqsUpTo(Vals, MaxPairLen)
    /\ b \in SeqsUpTo(Vals, MaxPairLen)
    /\ p = <<>>
    /\ res = NoCall

NextElementwise ==
    \/ CallAdd
    \/ CallSub
    \/ CallMul
    \/ CallDiv
    \/ CallMaximum
    \/ CallMinimum
    \/ CallMod
    \/ CallFmod
    \/ CallArctan2
    \/ CallDot
    \/ CallClip

SpecElementwise == InitElementwise /\ [][NextElementwise]_vars

BinaryOps ==
    {"add_arrays", "sub_arrays", "mul_arrays", "div_arrays", "mod_arrays",
     "fmod_arrays", "maximum_arrays", "minimum_arrays", "arctan2_arrays"}

\* C3: a binary array-array operation called with len(a) # len(b) returns a
\* length-mismatch error value and no buffer; with len(a) = len(b) it returns
\* a buffer of that length.
C3_LengthMismatch ==
    op \in BinaryOps =>
        IF Len(a) # Len(b)
        THEN res.kind = "err"
        ELSE res.kind = "ok" /\ Len(res.val) = Len(a)

\* What the code does instead: the four arithmetic operations abort on the
\* assertion, the other five return a buffer as long as the shorter input.
ElementwiseMismatchBehaviour ==
    (op \in BinaryOps /\ Len(a) # Len(b)) =>
        IF op \in {"add_arrays", "sub_arrays", "mul_arrays", "div_arrays"}
        THEN res.kind = "panic"
        ELSE res.kind = "ok" /\ Len(res.val) = MinLen(a, b)

(***************************************************************************)
(* Linear algebra kernel: matmul and transpose.  Buffers are row-major and *)
(* indexed from 0 in the source, from 1 here.  The entries are integers,   *)
(* on which + and * are exact.                                             *)
(***************************************************************************)
Zeros(n) == [i \in 1..n |-> 0]

\* result[i * n + j] += a_val * b[kk * n + j]
MatmulUpdateOverwrite(result, x, y, k, n, i, kk, j) ==
    [result EXCEPT ![i * n + j + 1] = x[i * k + kk + 1] * y[kk * n + j + 1]]

MatmulUpdate(result, x, y, k, n, i, kk, j) ==
    [result EXCEPT ![i * n + j + 1] = @ + x[i * k + kk + 1] * y[kk * n + j + 1]]

\* The loop nest for i, for kk, for j: step number t is the iteration
\* i = t / (k * n), kk = (t / n) mod k, j = t mod n.
RECURSIVE MatmulLoop(_, _, _, _, _, _, _)
MatmulLoop(result, x, y, m, k, n, t) ==
    IF t >= m * k * n THEN result
    ELSE MatmulLoop(MatmulUpdate(result, x, y, k, n, t \div (k * n), (t \div n) % k, t % n),
                    x, y, m, k, n, t + 1)

matmul(x, y, m, k, n) ==
    IF Len(x) # m * k THEN Panic("A size mismatch")
    ELSE IF Len(y) # k * n THEN Panic("B size mismatch")
    ELSE Ok(MatmulLoop(Zeros(m * n), x, y, m, k, n, 0))

\* result[j * rows + i] = a[i * cols + j]
TransposeStoreUntransposed(result, x, rows, cols, i, j) ==
    [result EXCEPT ![i * cols + j + 1] = x[i * cols + j + 1]]

TransposeStore(result, x, rows, cols, i, j) ==
    [result EXCEPT ![j * rows + i + 1] = x[i * cols + j + 1]]

RECURSIVE TransposeLoop(_, _, _, _, _)
TransposeLoop(result, x, rows, cols, t) ==
    IF t >= rows * cols THEN result
    ELSE TransposeLoop(TransposeStore(result, x, rows, cols, t \div cols, t % cols),
                       x, rows, cols, t + 1)

\* The read a[i * cols + j] is bounds checked: a buffer shorter than
\* rows * cols panics at the first index past its end, a longer one is read
\* in part.
transpose_matrix(x, rows, cols) ==
    IF Len(x) < rows * cols THEN Panic("index out of bounds")
    ELSE Ok(TransposeLoop(Zeros(rows * cols), x, rows, cols, 0))

(***************************************************************************)
(* Calls of matmul and transpose.  The buffers are the two of              *)
(* test_matmul_2x2 and, for every length up to MaxDim * MaxDim and every   *)
(* seed up to MaxSeed, the buffer of the residues of (seed + 1) * 2^i modulo *)
(* 11, moved to -4..5: ten distinct entries before they repeat.            *)
(***************************************************************************)
MaxDim == 3

MaxSeed == 1

Dims == 0..MaxDim

GenBuf(len, seed) == [i \in 1..len |-> (((seed + 1) * Pow(2, i)) % 11) - 5]

MatrixBufs ==
    {GenBuf(len, seed) : len \in 0..(MaxDim * MaxDim), seed \in 0..MaxSeed}
        \cup {<<1, 2, 3, 4>>, <<5, 6, 7, 8>>}

CallMatmul ==
    \E m \in Dims, k \in Dims, n \in Dims :
        /\ Returns("matmul", matmul(a, b, m, k, n))
        /\ p' = <<m, k, n>>
        /\ UNCHANGED <<a, b>>

CallTranspose ==
    \E rows \in Dims, cols \in Dims :
        /\ Returns("transpose_matrix", transpose_matrix(a, rows, cols))
        /\ p' = <<rows, cols>>
        /\ UNCHANGED <<a, b>>

\* The caller hands the returned matrix back with the dimensions swapped.
CallTransposeBack ==
    /\ op = "transpose_matrix"
    /\ res.kind = "ok"
    /\ op' = "transpose_back"
    /\ res' = transpose_matrix(res.val, p[2], p[1])
    /\ UNCHANGED <<a, b, p>>

InitMatrix ==
    /\ op = "none"
    /\ a \in MatrixBufs
    /\ b \in MatrixBufs
    /\ p = <<>>
    /\ res = NoCall

NextMatrix ==
    \/ CallMatmul
    \/ CallTranspose
    \/ CallTransposeBack

SpecMatrix == InitMatrix /\ [][NextMatrix]_vars

\* The textbook sum of A[i, t] * B[t, j] over the first n_terms values of t,
\* A with k columns and B with n.
RECURSIVE TripleSum(_, _, _, _, _, _, _)
TripleSum(x, y, k, n, i, j, n_terms) ==
    IF n_terms = 0 THEN 0
    ELSE TripleSum(x, y, k, n, i, j, n_terms - 1)
           + x[i * k + (n_terms - 1) + 1] * y[(n_terms - 1) * n + j + 1]

\* C2: with len(A) = m*k and len(B) = k*n, matmul returns m*n values, the
\* one at i*n + j being the sum over t in [0, k) of A[i*k + t] * B[t*n + j]
\* (zero when k = 0).
C2_MatmulTripleSum ==
    (op = "matmul" /\ Len(a) = p[1] * p[2] /\ Len(b) = p[2] * p[3]) =>
        /\ res.kind = "ok"
        /\ Len(res.val) = p[1] * p[3]
        /\ \A i \in 0..(p[1] - 1), j \in 0..(p[3] - 1) :
               res.val[i * p[3] + j + 1] = TripleSum(a, b, p[2], p[3], i, j, p[2])

\* Reached: the product of test_matmul_2x2.
C2_Witness ==
    /\ op = "matmul"
    /\ a = <<1, 2, 3, 4>>
    /\ b = <<5, 6, 7, 8>>
    /\ p = <<2, 2, 2>>
    /\ res = Ok(<<19, 22, 43, 50>>)

\* C5: with len(A) = rows*cols, transpose returns rows*cols values with
\* T[j*rows + i] = A[i*cols + j], and transposing T with the dimensions
\* swapped returns A.
C5_TransposeInvolutive ==
    /\ (op = "transpose_matrix" /\ Len(a) = p[1] * p[2]) =>
           /\ res.kind = "ok"
           /\ Len(res.val) = p[1] * p[2]
           /\ \A i \in 0..(p[1] - 1), j \in 0..(p[2] - 1) :
                  res.val[j * p[1] + i + 1] = a[i * p[2] + j + 1]
    /\ (op = "transpose_back" /\ Len(a) = p[1] * p[2]) => res = Ok(a)

\* Reached: a matrix that is not square and not its own transpose went
\* there and back.
C5_Witness ==
    /\ op = "transpose_back"
    /\ p[1] # p[2]
    /\ p[1] > 1
    /\ p[2] > 1
    /\ p[1] * p[2] = Len(a)
    /\ res = Ok(a)
    /\ transpose_matrix(a, p[1], p[2]) # Ok(a)

(***************************************************************************)
(* Small-matrix kernel: determinant and inverse of 2x2 and 3x3 matrices.   *)
(* An f64 here is a decimal fixed point number <<m, s>> = m * 10^-s, so    *)
(* that matrices of entries near 1 and of entries near 1e-6 can both be    *)
(* given, and |det| < 1e-10 separates more than det = 0.  A quotient is    *)
(* <<num, den, s>> = (num / den) * 10^-s with num/den in lowest terms.     *)
(* Mantissas stay below 10^9.                                              *)
(***************************************************************************)
DMul(x, y) == <<x[1] * y[1], x[2] + y[2]>>

DNeg(x) == <<-x[1], x[2]>>

DAdd(x, y) ==
    IF x[2] = y[2] THEN <<x[1] + y[1], x[2]>>
    ELSE IF x[2] < y[2] THEN <<x[1] * Pow(10, y[2] - x[2]) + y[1], y[2]>>
    ELSE <<x[1] + y[1] * Pow(10, x[2] - y[2]), x[2]>>

DSub(x, y) == DAdd(x, DNeg(y))

DAbs(x) == <<Abs(x[1]), x[2]>>

\* The least integer not below n / d, for d > 0.
CeilDiv(n, d) == -((-n) \div d)

\* x < y.  With the scales more than 9 apart the side of the larger scale
\* is nearer to zero than any non-zero value of the other side.
DLess(x, y) ==
    IF x[2] >= y[2]
    THEN IF x[2] - y[2] > 9
         THEN y[1] > 0 \/ (y[1] = 0 /\ x[1] < 0)
         ELSE (x[1] \div Pow(10, x[2] - y[2])) < y[1]
    ELSE IF y[2] - x[2] > 9
         THEN x[1] < 0 \/ (x[1] = 0 /\ y[1] > 0)
         ELSE x[1] < CeilDiv(y[1], Pow(10, y[2] - x[2]))

DDiv(x, y) ==
    LET q == Rat(x[1], y[1]) IN <<q[1], q[2], x[2] - y[2]>>

\* 1e-10
SINGULAR_EPS == <<1, 10>>

IsSingularOnlyIfZero(det) == det[1] = 0

\* det.abs() < 1e-10
IsSingular(det) == DLess(DAbs(det), SINGULAR_EPS)

\* a[0] * a[3] - a[1] * a[2]
Det2(x) == DSub(DMul(x[1], x[4]), DMul(x[2], x[3]))

Mul3(x, y, z) == DMul(DMul(x, y), z)

\* The six products of the 3x3 determinant, added and subtracted left to
\* right.
Det3(x) ==
    DSub(DSub(DSub(DAdd(DAdd(Mul3(x[1], x[5], x[9]), Mul3(x[2], x[6], x[7])),
                        Mul3(x[3], x[4], x[8])),
                   Mul3(x[3], x[5], x[7])),
              Mul3(x[2], x[4], x[9])),
         Mul3(x[1], x[6], x[8]))

Inv2EntriesNoNegation(x, det) ==
    << DDiv(x[4], det), DDiv(x[2], det), DDiv(x[3], det), DDiv(x[1], det) >>

Inv2Entries(x, det) ==
    << DDiv(x[4], det),
       DDiv(DNeg(x[2]), det),
       DDiv(DNeg(x[3]), det),
       DDiv(x[1], det) >>

\* (a[i] * a[j] - a[k] * a[l]) / det
Cof(x, i, j, k, l, det) ==
    DDiv(DSub(DMul(x[i + 1], x[j + 1]), DMul(x[k + 1], x[l + 1])), det)

Inv3Entries(x, det) ==
    << Cof(x, 4, 8, 5, 7, det),
       Cof(x, 2, 7, 1, 8, det),
       Cof(x, 1, 5, 2, 4, det),
       Cof(x, 5, 6, 3, 8, det),
       Cof(x, 0, 8, 2, 6, det),
       Cof(x, 2, 3, 0, 5, det),
       Cof(x, 3, 7, 4, 6, det),
       Cof(x, 1, 6, 0, 7, det),
       Cof(x, 0, 4, 1, 3, det) >>

inv_matrix(x, n) ==
    IF n = 2
    THEN IF Len(x) < 4 THEN Panic("index out of bounds")
         ELSE IF IsSingular(Det2(x)) THEN Err("Matrix is singular")
         ELSE Ok(Inv2Entries(x, Det2(x)))
    ELSE IF n = 3
    THEN IF Len(x) < 9 THEN Panic("index out of bounds")
         ELSE IF IsSingular(Det3(x)) THEN Err("Matrix is singular")
         ELSE Ok(Inv3Entries(x, Det3(x)))
    ELSE Err("inv only supports 2x2 and 3x3 matrices")

det_matrix(x, n) ==
    IF n = 2
    THEN IF Len(x) < 4 THEN Panic("index out of bounds") ELSE Ok(Det2(x))
    ELSE IF n = 3
    THEN IF Len(x) < 9 THEN Panic("index out of bounds") ELSE Ok(Det3(x))
    ELSE Err("det only supports 2x2 and 3x3 matrices")

(***************************************************************************)
(* Calls of det_matrix and inv_matrix.  p = <<n, e>>: the size handed in   *)
(* and the unit of the entries, a[i] * 10^-e.  For n in {2, 3} the buffer  *)
(* is every n x n matrix over Entries, the singular matrix [1, 2, 2, 4],   *)
(* or a buffer too short for n; for any other n it is a short buffer or a  *)
(* buffer of n * n entries.                                                *)
(***************************************************************************)
MaxEntry == 0

MaxSize == 4

Entries == (-1)..MaxEntry

UnitExps == {0, 3, 6}

DBuf(s, e) == [i \in 1..Len(s) |-> <<s[i], e>>]

SmallBufs(n) ==
    IF n \in {2, 3}
    THEN [1..(n * n) -> Entries] \cup SeqsUpTo(Entries, 2) \cup {<<1, 2, 2, 4>>}
    ELSE SeqsUpTo(Entries, 2) \cup {GenBuf(n * n, 0)}

CallDet ==
    /\ Returns("det_matrix", det_matrix(DBuf(a, p[2]), p[1]))
    /\ UNCHANGED <<a, b, p>>

CallInv ==
    /\ Returns("inv_matrix", inv_matrix(DBuf(a, p[2]), p[1]))
    /\ UNCHANGED <<a, b, p>>

InitSmall ==
    /\ op = "none"
    /\ \E n \in 0..MaxSize, e \in UnitExps :
           /\ p = <<n, e>>
           /\ a \in SmallBufs(n)
    /\ b = <<>>
    /\ res = NoCall

NextSmall ==
    \/ CallDet
    \/ CallInv

SpecSmall == InitSmall /\ [][NextSmall]_vars

(***************************************************************************)
(* Reference: the determinant by Laplace expansion along the first row and *)
(* the adjugate as the transposed cofactor matrix, on integer matrices     *)
(* held row-major in a sequence.                                           *)
(***************************************************************************)
\* The matrix without row r and column c (both from 0).
Minor(s, n, r, c) ==
    [t \in 1..((n - 1) * (n - 1)) |->
        LET i == (t - 1) \div (n - 1)
            j == (t - 1) % (n - 1)
            ii == IF i < r THEN i ELSE i + 1
            jj == IF j < c THEN j ELSE j + 1
        IN  s[ii * n + jj + 1]]

SignOf(k) == IF k % 2 = 0 THEN 1 ELSE -1

RECURSIVE Laplace(_, _)
RECURSIVE LaplaceTerms(_, _, _)
Laplace(s, n) == IF n = 0 THEN 1 ELSE LaplaceTerms(s, n, n)

LaplaceTerms(s, n, cnt) ==
    IF cnt = 0 THEN 0
    ELSE LaplaceTerms(s, n, cnt - 1)
           + SignOf(cnt - 1) * s[cnt] * Laplace(Minor(s, n, 0, cnt - 1), n - 1)

\* Entry (i, j) of the adjugate: the cofactor of (j, i).
Adjugate(s, n, i, j) == SignOf(i + j) * Laplace(Minor(s, n, j, i), n - 1)

Delta(i, j) == IF i = j THEN 1 ELSE 0

\* Entry (i, j) of A * B and of B * A, A the integer matrix s in units of
\* 10^-e and B a matrix of quotients with num/den in units of 10^e.
RECURSIVE RowByCol(_, _, _, _, _, _)
RowByCol(s, q, n, i, j, cnt) ==
    IF cnt = 0 THEN R(0)
    ELSE RAdd(RowByCol(s, q, n, i, j, cnt - 1),
              RMul(R(s[i * n + cnt]), Rat(q[(cnt - 1) * n + j + 1][1], q[(cnt - 1) * n + j + 1][2])))

RECURSIVE ColByRow(_, _, _, _, _, _)
ColByRow(s, q, n, i, j, cnt) ==
    IF cnt = 0 THEN R(0)
    ELSE RAdd(ColByRow(s, q, n, i, j, cnt - 1),
              RMul(Rat(q[i * n + cnt][1], q[i * n + cnt][2]), R(s[(cnt - 1) * n + j + 1])))

SmallCase == p[1] \in {2, 3} /\ Len(a) = p[1] * p[1]

\* C7: determinant and inverse of a size other than 2 and 3 return the
\* unsupported-size error whatever the buffer; for n in {2, 3} and
\* len(A) = n*n the determinant is returned, and the inverse is the
\* singular-matrix error exactly when |det| < 1e-10 for the det that
\* det_matrix returns, and a buffer of n*n values otherwise.
C7_OutcomePartition ==
    /\ (op = "det_matrix" /\ p[1] \notin {2, 3}) =>
           res = Err("det only supports 2x2 and 3x3 matrices")
    /\ (op = "inv_matrix" /\ p[1] \notin {2, 3}) =>
           res = Err("inv only supports 2x2 and 3x3 matrices")
    /\ (op = "det_matrix" /\ SmallCase) => res.kind = "ok"
    /\ (op = "inv_matrix" /\ SmallCase) =>
           LET det == det_matrix(DBuf(a, p[2]), p[1]).val
           IN  IF DLess(DAbs(det), <<1, 10>>)
               THEN res = Err("Matrix is singular")
               ELSE res.kind = "ok" /\ Len(res.val) = p[1] * p[1]

\* Reached: the singular [1, 2, 2, 4] was refused.  Reached as well: a 2x2
\* matrix of entries near 1e-6 with a determinant that is not zero, refused
\* as singular, and an inverted 3x3 matrix.
C7_Witness ==
    /\ op = "inv_matrix"
    /\ a = <<1, 2, 2, 4>>
    /\ p = <<2, 0>>
    /\ res = Err("Matrix is singular")

C7_WitnessTiny ==
    /\ op = "inv_matrix"
    /\ p = <<2, 6>>
    /\ Len(a) = 4
    /\ Det2(DBuf(a, 6))[1] # 0
    /\ res = Err("Matrix is singular")

C7_Witness3x3 ==
    /\ op = "inv_matrix"
    /\ p = <<3, 0>>
    /\ Len(a) = 9
    /\ res.kind = "ok"

\* C10: a returned inverse B is the adjugate over the determinant:
\* B[i*n + j] * det is entry (i, j) of the adjugate of A, det being the
\* value det_matrix returns, which is the Laplace determinant; and
\* A * B = B * A = I.
C10_InverseIsAdjugateOverDet ==
    (op = "inv_matrix" /\ SmallCase /\ res.kind = "ok") =>
        LET n == p[1]
            det == det_matrix(DBuf(a, p[2]), n).val
        IN  /\ det = <<Laplace(a, n), n * p[2]>>
            /\ \A i \in 0..(n - 1), j \in 0..(n - 1) :
                   LET q == res.val[i * n + j + 1]
                   IN  /\ q[2] > 0
                       /\ q[1] * det[1] = Adjugate(a, n, i, j) * q[2]
                       /\ q[3] + det[2] = (n - 1) * p[2]
                       /\ RowByCol(a, res.val, n, i, j, n) = R(Delta(i, j))
                       /\ ColByRow(a, res.val, n, i, j, n) = R(Delta(i, j))

\* Reached, for entries in units of 1e-3: a 3x3 inverse with an entry that
\* is not an integer, and a 2x2 inverse with a negated off-diagonal entry.
C10_Witness ==
    /\ op = "inv_matrix"
    /\ SmallCase
    /\ res.kind = "ok"
    /\ p[2] = 3
    /\ \/ p[1] = 3 /\ \E t \in 1..9 : res.val[t][2] > 1
       \/ p[1] = 2 /\ a[2] # 0 /\ res.val[2][1] # 0

(***************************************************************************)
(* Spectral kernel.  An f64 here is <<p, q, e>> = (p + q * sqrt 2) / 2^e,  *)
(* with e >= 0 the least possible: the sums and products of integers and   *)
(* of the sines and cosines of the multiples of pi/4, which are the angles *)
(* of the transforms of length 1, 2, 4 and 8.                              *)
(***************************************************************************)
RECURSIVE QNorm(_, _, _)
QNorm(x, y, e) ==
    IF e > 0 /\ x % 2 = 0 /\ y % 2 = 0 THEN QNorm(x \div 2, y \div 2, e - 1)
    ELSE <<x, y, e>>

Q(v) == <<v, 0, 0>>

QAdd(x, y) ==
    IF x[3] >= y[3]
    THEN QNorm(x[1] + y[1] * Pow(2, x[3] - y[3]), x[2] + y[2] * Pow(2, x[3] - y[3]), x[3])
    ELSE QNorm(x[1] * Pow(2, y[3] - x[3]) + y[1], x[2] * Pow(2, y[3] - x[3]) + y[2], y[3])

QNeg(x) == <<-x[1], -x[2], x[3]>>

QSub(x, y) == QAdd(x, QNeg(y))

QMul(x, y) ==
    QNorm(x[1] * y[1] + 2 * x[2] * y[2], x[1] * y[2] + x[2] * y[1], x[3] + y[3])

QBuf(s) == [i \in 1..Len(s) |-> Q(s[i])]

\* cos and sin of j * pi/4.
CosEighth(j) ==
    CASE j % 8 = 0 -> Q(1)
      [] j % 8 = 1 -> <<0, 1, 1>>
      [] j % 8 = 2 -> Q(0)
      [] j % 8 = 3 -> <<0, -1, 1>>
      [] j % 8 = 4 -> Q(-1)
      [] j % 8 = 5 -> <<0, -1, 1>>
      [] j % 8 = 6 -> Q(0)
      [] j % 8 = 7 -> <<0, 1, 1>>

SinEighth(j) == CosEighth(j + 6)

SinCosPositiveAngle(k, n) ==
    <<SinEighth((8 \div n) * k), CosEighth((8 \div n) * k)>>

\* angle = -2 pi k / n, which is -(8 / n) * k times pi/4; (sin, cos).
SinCos(k, n) ==
    <<SinEighth(-((8 \div n) * k)), CosEighth(-((8 \div n) * k))>>

\* Complex multiplication twiddle * odd[k], k from 0: (t_real, t_imag).
Twiddle(odd, k, n) ==
    LET sc == SinCos(k, n)
        sin == sc[1]
        cos == sc[2]
    IN  << QSub(QMul(cos, odd[1][k + 1]), QMul(sin, odd[2][k + 1])),
           QAdd(QMul(cos, odd[2][k + 1]), QMul(sin, odd[1][k + 1])) >>

\* The butterfly loop over k in 0..half_n: even and odd are the transformed
\* halves, t the products twiddle * odd[k]; real and imag are written at k
\* and at k + half_n.
Butterfly(real, imag, even, odd, t) ==
    LET n == Len(real)
        half_n == n \div 2
    IN  << [i \in 1..n |->
              IF i <= half_n THEN QAdd(even[1][i], t[i][1])
              ELSE IF i <= 2 * half_n THEN QSub(even[1][i - half_n], t[i - half_n][1])
              ELSE real[i]],
           [i \in 1..n |->
              IF i <= half_n THEN QAdd(even[2][i], t[i][2])
              ELSE IF i <= 2 * half_n THEN QSub(even[2][i - half_n], t[i - half_n][2])
              ELSE imag[i]] >>

\* A value computed once and then read many times is bound as the element
\* of a one-element set, here and below.
Combine(real, imag, even, odd) ==
    CHOOSE out \in
        {Butterfly(real, imag, even, odd, t) :
            t \in {[k \in 1..(Len(real) \div 2) |-> Twiddle(odd, k - 1, Len(real))]}} : TRUE

\* Divide: the even-indexed and the odd-indexed elements,
\* <<even_real, even_imag, odd_real, odd_imag>>.
Split(real, imag) ==
    << [i \in 1..(Len(real) \div 2) |-> real[2 * i - 1]],
       [i \in 1..(Len(real) \div 2) |-> imag[2 * i - 1]],
       [i \in 1..(Len(real) \div 2) |-> real[2 * i]],
       [i \in 1..(Len(real) \div 2) |-> imag[2 * i]] >>

\* fft_recursive works in place: the value is the pair of buffers it leaves.
RECURSIVE fft_recursive(_, _)
fft_recursive(real, imag) ==
    IF Len(real) <= 1 THEN <<real, imag>>
    ELSE CHOOSE out \in
             {Combine(real, imag, h[1], h[2]) :
                 h \in {<<fft_recursive(s[1], s[2]), fft_recursive(s[3], s[4])>> :
                           s \in {Split(real, imag)}}} : TRUE

\* x & y on unsigned integers.
RECURSIVE BitAnd(_, _)
BitAnd(x, y) ==
    IF x = 0 \/ y = 0 THEN 0
    ELSE (x % 2) * (y % 2) + 2 * BitAnd(x \div 2, y \div 2)

\* n > 0 && (n & (n - 1)) == 0
IsPowerOfTwoLength(n) == n > 0 /\ BitAnd(n, n - 1) = 0

Interleave(real, imag) ==
    [i \in 1..(2 * Len(real)) |->
        IF i % 2 = 1 THEN real[(i + 1) \div 2] ELSE imag[i \div 2]]

fft(input) ==
    LET n == Len(input) IN
    IF ~IsPowerOfTwoLength(n) THEN Panic("FFT requires power of 2 length")
    ELSE CHOOSE r \in
             {Ok(Interleave(out[1], out[2])) :
                 out \in {fft_recursive(input, [i \in 1..n |-> Q(0)])}} : TRUE

RECURSIVE Log2(_)
Log2(n) == IF n <= 1 THEN 0 ELSE 1 + Log2(n \div 2)

IfftScaleOne(n) == Q(1)

\* 1.0 / n as f64, n a power of two.
IfftScale(n) == <<1, 0, Log2(n)>>

ifft(input, n) ==
    IF Len(input) # n * 2 THEN Panic("Input must have length 2n")
    ELSE IF ~IsPowerOfTwoLength(n) THEN Panic("IFFT requires power of 2 length")
    ELSE LET real == [i \in 1..n |-> input[2 * i - 1]]
             imag == [i \in 1..n |-> QNeg(input[2 * i])]
             scale == IfftScale(n)
         IN  CHOOSE r \in
                 {Ok(Interleave([i \in 1..n |-> QMul(out[1][i], scale)],
                                [i \in 1..n |-> QMul(QNeg(out[2][i]), scale)])) :
                     out \in {fft_recursive(real, imag)}} : TRUE

(***************************************************************************)
(* Calls of fft and ifft.  a is a buffer of at most MaxN integer samples   *)
(* from 0..MaxSample; ifft is called on what fft returned, and on a itself *)
(* as an interleaved complex buffer with any n up to MaxN.                 *)
(***************************************************************************)
MaxN == 8

MaxSample == 1

Samples == 0..MaxSample

CallFft == Returns("fft", fft(QBuf(a))) /\ UNCHANGED <<a, b, p>>

CallIfft ==
    \E n \in 0..MaxN :
        /\ Returns("ifft", ifft(QBuf(a), n))
        /\ p' = <<n>>
        /\ UNCHANGED <<a, b>>

\* The caller hands what fft returned to ifft, with n = len(a).
CallIfftOfFft ==
    /\ op = "fft"
    /\ res.kind = "ok"
    /\ op' = "ifft_of_fft"
    /\ res' = ifft(res.val, Len(a))
    /\ p' = <<Len(a)>>
    /\ UNCHANGED <<a, b>>

InitSpectral ==
    /\ op = "none"
    /\ a \in SeqsUpTo(Samples, MaxN)
    /\ b = <<>>
    /\ p = <<>>
    /\ res = NoCall

NextSpectral ==
    \/ CallFft
    \/ CallIfft
    \/ CallIfftOfFft

SpecSpectral == InitSpectral /\ [][NextSpectral]_vars

(***************************************************************************)
(* Reference: the discrete Fourier transform as the sum it is defined by,  *)
(* X[k] = SUM x[j] * (cos(2 pi j k / n) - i sin(2 pi j k / n)).            *)
(***************************************************************************)
RECURSIVE DftRe(_, _, _)
DftRe(s, k, cnt) ==
    IF cnt = 0 THEN Q(0)
    ELSE QAdd(DftRe(s, k, cnt - 1),
              QMul(Q(s[cnt]), CosEighth((8 \div Len(s)) * (cnt - 1) * k)))

RECURSIVE DftIm(_, _, _)
DftIm(s, k, cnt) ==
    IF cnt = 0 THEN Q(0)
    ELSE QSub(DftIm(s, k, cnt - 1),
              QMul(Q(s[cnt]), SinEighth((8 \div Len(s)) * (cnt - 1) * k)))

PowersOfTwo == {1, 2, 4, 8, 16, 32, 64}

\* C1: for a real input x of power-of-two length n, ifft(fft(x), n) returns
\* 2n values, the i-th real part being x[i] and the i-th imaginary part 0.
C1_RoundTrip ==
    /\ (op = "fft" /\ Len(a) \in PowersOfTwo) => res.kind = "ok"
    /\ op = "ifft_of_fft" =>
           /\ res.kind = "ok"
           /\ Len(res.val) = 2 * Len(a)
           /\ \A i \in 1..Len(a) :
                  /\ res.val[2 * i - 1] = Q(a[i])
                  /\ res.val[2 * i] = Q(0)

\* Reached: the round trip of a length-8 input with distinct neighbours.
C1_Witness ==
    /\ op = "ifft_of_fft"
    /\ Len(a) = 8
    /\ a[1] # a[2]
    /\ a[2] = a[3]
    /\ a[4] # a[8]
    /\ res.kind = "ok"
    /\ res.val[3] = Q(a[2])

\* C8: for a real input x of power-of-two length n, fft returns 2n values,
\* elements 2k and 2k+1 being the real and imaginary part of the discrete
\* Fourier transform X[k]; a length-1 input comes back unchanged; and
\* fft([1,0,0,0]) has real parts [1,1,1,1] and imaginary parts [0,0,0,0].
C8_FftIsDft ==
    (op = "fft" /\ Len(a) \in PowersOfTwo) =>
        /\ res.kind = "ok"
        /\ Len(res.val) = 2 * Len(a)
        /\ \A k \in 0..(Len(a) - 1) :
               /\ res.val[2 * k + 1] = DftRe(a, k, Len(a))
               /\ res.val[2 * k + 2] = DftIm(a, k, Len(a))
        /\ Len(a) = 1 => res.val = <<Q(a[1]), Q(0)>>
        /\ a = <<1, 0, 0, 0>> =>
               res.val = <<Q(1), Q(0), Q(1), Q(0), Q(1), Q(0), Q(1), Q(0)>>

\* Reached: a length-8 transform with an irrational value, so that the
\* twiddle factors of the odd multiples of pi/4 took part.
C8_Witness ==
    /\ op = "fft"
    /\ Len(a) = 8
    /\ res.kind = "ok"
    /\ \E t \in 1..16 : res.val[t][2] # 0

\* C6: fft succeeds exactly on the lengths 1, 2, 4, 8, ... and ifft with
\* len(input) = 2n exactly on n in 1, 2, 4, 8, ...; on every other length
\* the call returns the invalid-length error value.
C6_FftLengths ==
    /\ op = "fft" =>
           IF Len(a) \in PowersOfTwo THEN res.kind = "ok" ELSE res.kind = "err"
    /\ (op = "ifft" /\ Len(a) = 2 * p[1]) =>
           IF p[1] \in PowersOfTwo THEN res.kind = "ok" ELSE res.kind = "err"

\* What the code does: the bit test sorts the lengths as C6 says, and a
\* refused length aborts on the assertion.
FftLengthBehaviour ==
    /\ op = "fft" =>
           IF Len(a) \in PowersOfTwo THEN res.kind = "ok"
           ELSE res = Panic("FFT requires power of 2 length")
    /\ (op = "ifft" /\ Len(a) = 2 * p[1]) =>
           IF p[1] \in PowersOfTwo THEN res.kind = "ok"
           ELSE res = Panic("IFFT requires power of 2 length")
    /\ (op = "ifft" /\ Len(a) # 2 * p[1]) => res = Panic("Input must have length 2n")

\* C4: no call terminates the process: every call returns its output or an
\* error value.
C4_NoProcessAbort == res.kind # "panic"

====
